---- MODULE Spec2Model ----
(***************************************************************************)
(* Forecast fallback resolver (getForecast10Days, getHourly24) and the     *)
(* raster climate classifier (getClimate) of the weather front end.        *)
(*                                                                         *)
(* Units.  Timestamps (dt) are integer seconds since the epoch.  The code  *)
(* multiplies dt by 1000 before building a Date and divides by 1000 again  *)
(* for rec.dt; for integer dt both scalings cancel, so the model keeps     *)
(* seconds (milliseconds of present-day dates exceed the checker's         *)
(* integers).  Temperatures are integers in tenths of a degree Celsius;    *)
(* rounded temperatures are whole degrees.  Coordinates and raster cell    *)
(* sizes are integers in tenths of a degree, so floor((a - b) / c) is      *)
(* exact integer floor division.                                           *)
(***************************************************************************)
EXTENDS Integers, Sequences, FiniteSets, TLC

VARIABLES
    fn,          \* which resolver is running: "none", "daily", "hourly"
    count,       \* the count argument of getForecast10Days
    pc,          \* "idle", "awaitFetch", "awaitJson", "returned", "thrown"
    tier,        \* tier whose fetch the call is awaiting (0 before a call)
    inflight,    \* tiers whose fetch has been issued and has not settled
    fetchLog,    \* tiers in the order their fetch was issued
    tierOutcome, \* per tier: how it ended
    body,        \* the parsed array field of the last JSON body read
    result,      \* the returned array
    error,       \* message of the Error the call threw
    lat, lon,    \* getClimate arguments
    rasterArg,   \* getClimate argument georaster: georasterObj at the call
    rasterLoad,  \* loadGeoTiff: "loading", "loaded" or "failed"
    georaster,   \* georasterObj: NoRaster (null) or the parsed raster
    climate,     \* getClimate return value
    climateThrew, \* whether the last getClimate call threw to its caller
    tzHours,     \* the browser's offset from UTC, in hours
    hourlyView,  \* what renderHourly has put into #hourlyList
    selections,  \* the location selections made so far, oldest first: how
                 \* each was made and where its handler stands
    marker,      \* the selection whose marker is on the map (0: none)
    lastLatLon,  \* the selection window._lastLatLon holds (0: undefined)
    panel        \* per info-panel element: the selection whose data it
                 \* shows (0: the page's initial content)

forecastVars == <<fn, count, pc, tier, inflight, fetchLog, tierOutcome,
                  body, result, error>>
climateVars == <<lat, lon, rasterArg, rasterLoad, georaster, climate,
                 climateThrew>>
renderVars == <<tzHours, hourlyView>>
vars == <<fn, count, pc, tier, inflight, fetchLog, tierOutcome, body,
          result, error, lat, lon, rasterArg, rasterLoad, georaster, climate,
          climateThrew, tzHours, hourlyView, selections, marker,
          lastLatLon, panel>>
uiVars == <<selections, marker, lastLatLon, panel>>

----------------------------------------------------------------------------
(* Bounds of the model *)

MinCount == 0
MaxCount == 11
MaxDaily == 11
MaxHourly == 25
MaxList3h == 10
MaxSamples == 3
MaxAggSamples == 3
MaxAggCount == 2
MaxStep == 2
MaxWidth == 3
MaxHeight == 2
MaxCoord == 6
MaxSel == 2

(* Program constants *)

MaxDays == 10
MinDays == 1
HourlyCap == 24
List3hCap == 9
SecondsPerDay == 86400
StepSec == 10800
HourSec == 3600
PosInfinity == 1000000
NegInfinity == -PosInfinity

\* 2024-01-31T21:00:00Z: the first sample of the modelled 3-hour series, so
\* that the series crosses a day and a month boundary.
BaseDt == 19753 * SecondsPerDay + 21 * HourSec

----------------------------------------------------------------------------
(* Pure helpers *)

Min2(a, b) == IF a <= b THEN a ELSE b
Max2(a, b) == IF a >= b THEN a ELSE b

\* Array.prototype.slice(0, n) for n >= 0
SliceTo(s, n) == SubSeq(s, 1, Min2(n, Len(s)))

\* Math.min(10, Math.max(1, count))
Clamp(c) == Min2(MaxDays, Max2(MinDays, c))

----------------------------------------------------------------------------
(* Date handling of the day bucket key *)

\* Civil date <<year, month, day>> of a day number counted from 1970-01-01.
CivilFromDays(z0) ==
    LET z == z0 + 719468
        era == z \div 146097
        doe == z - era * 146097
        yoe == (doe - doe \div 1460 + doe \div 36524 - doe \div 146096) \div 365
        doy == doe - (365 * yoe + yoe \div 4 - yoe \div 100)
        mp == (5 * doy + 2) \div 153
        d == doy - (153 * mp + 2) \div 5 + 1
        m == IF mp < 10 THEN mp + 3 ELSE mp - 9
        y == yoe + era * 400 + (IF m <= 2 THEN 1 ELSE 0)
    IN  <<y, m, d>>

\* new Date(ts).toISOString().slice(0, 10): the UTC date "YYYY-MM-DD", kept
\* as its three zero-padded fields <<YYYY, MM, DD>>.
DayKey(dt) == CivilFromDays(dt \div SecondsPerDay)

\* a[0] < b[0] on two "YYYY-MM-DD" strings: for years 0000-9999 the fields
\* have fixed width, so the string comparison is the lexicographic comparison
\* of the fields.
StrLess(a, b) ==
    \/ a[1] < b[1]
    \/ a[1] = b[1] /\ a[2] < b[2]
    \/ a[1] = b[1] /\ a[2] = b[2] /\ a[3] < b[3]

----------------------------------------------------------------------------
(* Aggregation of 3-hour samples into days (tier 3 of getForecast10Days) *)

\* A sample of the 5-day/3-hour list: [dt, main, weather]; main is <<>> when
\* the sample has no main object and <<[temp |-> t]>> otherwise; weather is
\* the sample's weather array (empty, or one [icon, description] element).

\* index of key k in the insertion-ordered map m (0 when absent)
IndexOfKey(m, k) ==
    IF \E i \in 1..Len(m) : m[i].key = k
    THEN CHOOSE i \in 1..Len(m) : m[i].key = k
    ELSE 0

\* obj[k] = (obj[k] || 0) + 1 on an object kept as its insertion-ordered
\* entries
Bump(obj, k) ==
    LET i == IndexOfKey(obj, k)
    IN  IF i = 0 THEN Append(obj, [key |-> k, n |-> 1])
        ELSE [obj EXCEPT ![i].n = @ + 1]

\* one iteration of "for (const item of list)"
AddItem(byDay, item) ==
    LET dayKey == DayKey(item.dt)
        i == IndexOfKey(byDay, dayKey)
        rec == IF i > 0 THEN byDay[i].rec
               ELSE [temps |-> <<>>, icons |-> <<>>, descs |-> <<>>,
                     dt |-> item.dt]
        rec2 == [rec EXCEPT
                   !.temps = IF item.main # <<>>
                             THEN Append(@, item.main[1].temp) ELSE @,
                   !.icons = IF item.weather # <<>>
                             THEN Bump(@, item.weather[1].icon) ELSE @,
                   !.descs = IF item.weather # <<>>
                             THEN Bump(@, item.weather[1].description) ELSE @]
    IN  IF i > 0 THEN [byDay EXCEPT ![i].rec = rec2]
        ELSE Append(byDay, [key |-> dayKey, rec |-> rec2])

RECURSIVE ByDayOf(_)
\* the Map byDay after the whole loop
ByDayOf(list) ==
    IF list = <<>> THEN <<>>
    ELSE AddItem(ByDayOf(SubSeq(list, 1, Len(list) - 1)), list[Len(list)])

RemoveAt(s, i) == SubSeq(s, 1, i - 1) \o SubSeq(s, i + 1, Len(s))

SortEntriesUnsorted(m) == m

RECURSIVE SortEntries(_)
\* Array.from(byDay.entries()).sort((a, b) => (a[0] < b[0] ? -1 : 1)); the
\* keys of a Map are distinct, so the sorted order is unique.
SortEntries(m) ==
    IF m = <<>> THEN <<>>
    ELSE LET i == CHOOSE j \in 1..Len(m) :
                     \A k \in 1..Len(m) : k # j => StrLess(m[j].key, m[k].key)
         IN  <<m[i]>> \o SortEntries(RemoveAt(m, i))

RECURSIVE SeqMin(_)
SeqMin(s) == IF Len(s) = 1 THEN s[1]
             ELSE Min2(s[1], SeqMin(SubSeq(s, 2, Len(s))))
RECURSIVE SeqMax(_)
SeqMax(s) == IF Len(s) = 1 THEN s[1]
             ELSE Max2(s[1], SeqMax(SubSeq(s, 2, Len(s))))

\* Math.min(...temps): Infinity for no arguments
MathMin(temps) == IF temps = <<>> THEN PosInfinity ELSE SeqMin(temps)
\* Math.max(...temps): -Infinity for no arguments
MathMax(temps) == IF temps = <<>> THEN NegInfinity ELSE SeqMax(temps)

\* Math.round on tenths of a degree: floor(x + 0.5); Infinity stays Infinity
MathRound(x) ==
    IF x = PosInfinity \/ x = NegInfinity THEN x
    ELSE ((x + 5) \div 10) * 10

\* Object.entries(obj).sort((a, b) => b[1] - a[1])[0]?.[0] || default: the
\* sort is stable, so the first entry in insertion order with the largest
\* count comes first.
TopOf(obj, default) ==
    IF obj = <<>> THEN default
    ELSE obj[CHOOSE i \in 1..Len(obj) :
                 /\ \A j \in 1..Len(obj) : obj[j].n <= obj[i].n
                 /\ \A j \in 1..(i - 1) : obj[j].n < obj[i].n].key

\* the .map(([_, rec]) => ...) callback
DayEntry(rec) ==
    [dt |-> rec.dt,
     temp |-> [min |-> MathRound(MathMin(rec.temps)),
               max |-> MathRound(MathMax(rec.temps))],
     weather |-> <<[icon |-> TopOf(rec.icons, "01d"),
                    description |-> TopOf(rec.descs, "")]>>]

\* days: sort, slice, map
AggregateDays(list, c) ==
    LET sorted == SliceTo(SortEntries(ByDayOf(list)), Clamp(c))
    IN  [i \in 1..Len(sorted) |-> DayEntry(sorted[i].rec)]

----------------------------------------------------------------------------
(* Hourly normalisation (getHourly24) *)

\* arr.map((h) => ({dt, temp, icon, description})) of One Call tiers
HourOfOneCall(h) ==
    [dt |-> h.dt, temp |-> h.temp,
     icon |-> IF h.weather # <<>> THEN h.weather[1].icon ELSE "01d",
     description |-> IF h.weather # <<>> THEN h.weather[1].description
                     ELSE ""]

\* hours.push({...}) of the 3-hour tier
HourOfSample(it) ==
    [dt |-> it.dt,
     temp |-> IF it.main # <<>> THEN it.main[1].temp ELSE 0,
     icon |-> IF it.weather # <<>> THEN it.weather[1].icon ELSE "01d",
     description |-> IF it.weather # <<>> THEN it.weather[1].description
                     ELSE ""]

MapOneCall(s) == [i \in 1..Len(s) |-> HourOfOneCall(s[i])]
MapSample(s) == [i \in 1..Len(s) |-> HourOfSample(s[i])]

----------------------------------------------------------------------------
(* Response bodies the remote sources can send *)

\* d.daily / d.hourly / d.list: isArray is Array.isArray of the field
NotArray == [isArray |-> FALSE, items |-> <<>>]
ArrayOf(s) == [isArray |-> TRUE, items |-> s]

\* Array.isArray(x) ? x : []
ArrayOrEmpty(b) == IF b.isArray THEN b.items ELSE <<>>

Weathers ==
    {<<[icon |-> "01d", description |-> "clear sky"]>>,
     <<[icon |-> "10d", description |-> "light rain"]>>}

SampleDts == {BaseDt + k * StepSec : k \in 0..MaxStep}

\* a daily entry of the One Call tiers
DailyEntry(i) ==
    [dt |-> BaseDt + i * SecondsPerDay,
     temp |-> [min |-> 100 + i, max |-> 200 + i],
     weather |-> <<[icon |-> "01d", description |-> "clear sky"]>>]

\* n daily entries, listed in ascending or in descending date order
DailyFeed(n, ord) ==
    [i \in 1..n |-> DailyEntry(IF ord = "asc" THEN i ELSE n + 1 - i)]

DailyBodies ==
    {NotArray} \cup
    {ArrayOf(DailyFeed(n, ord)) : n \in 0..MaxDaily, ord \in {"asc", "desc"}}

\* an hourly entry of the One Call tiers; every fourth has no weather
HourlyEntry(i) ==
    [dt |-> BaseDt + i * HourSec, temp |-> 150 + i,
     weather |-> IF i % 4 = 0 THEN <<>>
                 ELSE <<[icon |-> "10d", description |-> "light rain"]>>]

HourlyBodies ==
    {NotArray} \cup {ArrayOf([i \in 1..n |-> HourlyEntry(i)]) : n \in 0..MaxHourly}

\* a well-formed 3-hour sample
Sample3h(i) ==
    [dt |-> BaseDt + i * StepSec, main |-> <<[temp |-> 150 + i]>>,
     weather |-> IF i % 4 = 0 THEN <<>>
                 ELSE <<[icon |-> "10d", description |-> "light rain"]>>]

List3hBodies ==
    {NotArray} \cup {ArrayOf([i \in 1..n |-> Sample3h(i - 1)]) : n \in 0..MaxList3h}

SeqsUpTo(S, n) == UNION {[1..k -> S] : k \in 0..n}

\* 3-hour lists in every order, of well-formed samples
SampleListBodies ==
    {NotArray} \cup
    {ArrayOf(l) : l \in SeqsUpTo({Sample3h(k) : k \in 0..MaxStep}, MaxSamples)}

\* 3-hour samples whose main and weather may be missing
AggSamples ==
    [dt : SampleDts,
     main : {<<>>, <<[temp |-> -25]>>, <<[temp |-> 14]>>},
     weather : {<<>>} \cup Weathers]

AggListBodies == {ArrayOf(l) : l \in SeqsUpTo(AggSamples, MaxAggSamples)}

\* what a tier of a resolver can answer with
Bodies(f, t) ==
    IF f = "daily" THEN (IF t < 3 THEN DailyBodies ELSE SampleListBodies)
    ELSE (IF t < 3 THEN HourlyBodies ELSE List3hBodies)

----------------------------------------------------------------------------
(* The resolvers as processes *)

Tiers == 1..3
NoOutcome == [t \in Tiers |-> "none"]
NoBody == NotArray

ForecastIdle ==
    /\ fn = "none" /\ count = 0 /\ pc = "idle" /\ tier = 0
    /\ inflight = {} /\ fetchLog = <<>> /\ tierOutcome = NoOutcome
    /\ body = NoBody /\ result = <<>> /\ error = ""

NoRaster == [loaded |-> FALSE]
\* climateCode is <<>> for null and <<v>> for the raster value v
NullCode == <<>>
NotCalled == [climateCode |-> NullCode, climateType |-> ""]
ClimateIdle ==
    /\ lat = 0 /\ lon = 0 /\ rasterArg = NoRaster
    /\ rasterLoad = "loading" /\ georaster = NoRaster
    /\ climate = NotCalled
    /\ climateThrew = FALSE

\* #hourlyList before renderHourly has run
NoView == [kind |-> "none", picks |-> <<>>]
RenderIdle == tzHours = 0 /\ hourlyView = NoView

\* the elements of the info panel that updateInfo fills in
PanelFields == {"location_name", "elevation", "climate_type", "temperature",
                "weather_desc", "temp_range", "humidity_value", "wind_value",
                "uv_index"}

\* no selection made yet: no marker, window._lastLatLon undefined, the panel
\* as the page ships it
UiIdle ==
    /\ selections = <<>>
    /\ marker = 0
    /\ lastLatLon = 0
    /\ panel = [f \in PanelFields |-> 0]

Init == ForecastIdle /\ ClimateIdle /\ RenderIdle /\ UiIdle

\* await fetch(url) of tier t, issued while the fetches fl are in flight
IssueFetch(t, fl) ==
    /\ tier' = t
    /\ pc' = "awaitFetch"
    /\ inflight' = fl \cup {t}
    /\ fetchLog' = Append(fetchLog, t)

NextTierSkip(t) == 3
\* control leaves tier t's try block and enters the next one
NextTier(t) == t + 1

ThrowAsReturn(kind, b, msg) ==
    /\ tierOutcome' = [tierOutcome EXCEPT ![tier] = kind]
    /\ inflight' = inflight \ {tier}
    /\ pc' = "returned"
    /\ result' = <<>>
    /\ body' = b
    /\ UNCHANGED <<fn, count, tier, fetchLog, error>>

\* throw: the call ends with an Error carrying msg
Throw(kind, b, msg) ==
    /\ tierOutcome' = [tierOutcome EXCEPT ![tier] = kind]
    /\ inflight' = inflight \ {tier}
    /\ pc' = "thrown"
    /\ error' = msg
    /\ body' = b
    /\ UNCHANGED <<fn, count, tier, fetchLog, result>>

FallThroughPropagates(kind, b) == Throw(kind, b, "Failed to fetch")
\* tiers 1 and 2: "catch (_) {}" swallows the error, or the if was false;
\* the next try block runs up to its await fetch
FallThrough(kind, b) ==
    /\ tierOutcome' = [tierOutcome EXCEPT ![tier] = kind]
    /\ IssueFetch(NextTier(tier), inflight \ {tier})
    /\ body' = b
    /\ UNCHANGED <<fn, count, result, error>>

\* return r
Return(kind, b, r) ==
    /\ tierOutcome' = [tierOutcome EXCEPT ![tier] = kind]
    /\ inflight' = inflight \ {tier}
    /\ pc' = "returned"
    /\ result' = r
    /\ body' = b
    /\ UNCHANGED <<fn, count, tier, fetchLog, error>>

\* getForecast10Days(lat, lon, c) up to its first await
CallForecast(c) ==
    /\ pc = "idle"
    /\ fn' = "daily"
    /\ count' = c
    /\ IssueFetch(1, inflight)
    /\ UNCHANGED <<tierOutcome, body, result, error>>
    /\ UNCHANGED <<climateVars, renderVars, uiVars>>

\* getHourly24(lat, lon) up to its first await
CallHourly ==
    /\ pc = "idle"
    /\ fn' = "hourly"
    /\ IssueFetch(1, inflight)
    /\ UNCHANGED <<count, tierOutcome, body, result, error>>
    /\ UNCHANGED <<climateVars, renderVars, uiVars>>

\* await fetch(...) rejects: network error
FetchRejects ==
    /\ pc = "awaitFetch"
    /\ IF tier < 3 THEN FallThrough("network", body)
       ELSE Throw("network", body, "Failed to fetch")
    /\ UNCHANGED <<climateVars, renderVars, uiVars>>

\* await fetch(...) resolves with a response whose ok flag is ok
FetchResolves(ok) ==
    /\ pc = "awaitFetch"
    /\ IF ok THEN /\ pc' = "awaitJson"
                  /\ UNCHANGED <<fn, count, tier, inflight, fetchLog,
                                 tierOutcome, body, result, error>>
       ELSE IF tier < 3 THEN FallThrough("status", body)
       ELSE Throw("status", body, "forecast 3h not available")
    /\ UNCHANGED <<climateVars, renderVars, uiVars>>

\* await r.json() rejects: the body is not JSON
JsonRejects ==
    /\ pc = "awaitJson"
    /\ IF tier < 3 THEN FallThrough("parse", body)
       ELSE Throw("parse", body, "Unexpected token in JSON")
    /\ UNCHANGED <<climateVars, renderVars, uiVars>>

AcceptDailyUnclamped(daily, c) == SliceTo(daily, Max2(0, c))
AcceptDailySorted(daily, c) == SliceTo(SortEntries([i \in 1..Len(daily) |-> [key |-> DayKey(daily[i].dt), rec |-> daily[i]]]), Clamp(c))
\* daily30.slice(0, Math.min(10, Math.max(1, count)))
AcceptDaily(daily, c) == SliceTo(daily, Clamp(c))

HourlyOneCallUncapped(b) == MapOneCall(ArrayOrEmpty(b))
\* d.hourly.slice(0, 24), then the map
HourlyOneCall(b) == MapOneCall(SliceTo(ArrayOrEmpty(b), HourlyCap))

Hourly3hPadded(b) ==
    IF ArrayOrEmpty(b) = <<>> THEN <<HourOfSample(Sample3h(0))>>
    ELSE SliceTo(MapSample(SliceTo(ArrayOrEmpty(b), List3hCap)), HourlyCap)
\* d3h.list.slice(0, 9), the push loop, hours.slice(0, 24)
Hourly3h(b) ==
    SliceTo(MapSample(SliceTo(ArrayOrEmpty(b), List3hCap)), HourlyCap)

\* await r.json() resolves with a body whose array field is b; the code then
\* runs to its return, its throw or the next tier's await fetch
JsonResolves(b) ==
    /\ pc = "awaitJson"
    /\ IF fn = "daily" /\ tier < 3 THEN
           IF Len(ArrayOrEmpty(b)) > 0
           THEN Return("data", b, AcceptDaily(ArrayOrEmpty(b), count))
           ELSE FallThrough("empty", b)
       ELSE IF fn = "daily" THEN
           IF Len(AggregateDays(ArrayOrEmpty(b), count)) > 0
           THEN Return("data", b, AggregateDays(ArrayOrEmpty(b), count))
           ELSE Throw("empty", b, "No forecast data available")
       ELSE IF tier < 3 THEN
           IF Len(HourlyOneCall(b)) > 0
           THEN Return("data", b, HourlyOneCall(b))
           ELSE FallThrough("empty", b)
       ELSE Return(IF Len(ArrayOrEmpty(b)) > 0 THEN "data" ELSE "empty",
                   b, Hourly3h(b))
    /\ UNCHANGED <<climateVars, renderVars, uiVars>>

Next ==
    \/ \E c \in MinCount..MaxCount : CallForecast(c)
    \/ CallHourly
    \/ FetchRejects
    \/ \E ok \in BOOLEAN : FetchResolves(ok)
    \/ JsonRejects
    \/ (pc = "awaitJson" /\ \E b \in Bodies(fn, tier) : JsonResolves(b))

Spec == Init /\ [][Next]_vars

TypeOK ==
    /\ fn \in {"none", "daily", "hourly"}
    /\ pc \in {"idle", "awaitFetch", "awaitJson", "returned", "thrown"}
    /\ tier \in 0..3
    /\ inflight \subseteq Tiers

----------------------------------------------------------------------------
(* The climate classifier *)

\* const koppenClasses = {...}
koppenClasses ==
    [c \in 0..5 |->
        [name |-> CASE c = 0 -> "No data"
                    [] c = 1 -> "Tropical (A)"
                    [] c = 2 -> "Arid (B)"
                    [] c = 3 -> "Temperate (C)"
                    [] c = 4 -> "Cold (D)"
                    [] c = 5 -> "Polar (E)"]]

\* Math.abs
Abs(x) == IF x < 0 THEN -x ELSE x

XPixelNoOrigin(lo, g) == lo \div g.pixelWidth
\* Math.floor((lon - xmin) / pixelWidth)
XPixel(lo, g) == (lo - g.xmin) \div g.pixelWidth

\* Math.floor((ymax - lat) / Math.abs(pixelHeight))
YPixel(la, g) == (g.ymax - la) \div Abs(g.pixelHeight)

\* georaster.values[0][yPixel][xPixel]; values[0] is the raster's first
\* band, indexed from 0: reading [xPixel] of a row the band does not have
\* (undefined) throws a TypeError
CellRead(g, yPixel, xPixel) ==
    IF yPixel \in DOMAIN g.values
    THEN [threw |-> FALSE, val |-> g.values[yPixel][xPixel]]
    ELSE [threw |-> TRUE, val |-> 0]

ClimateNameNoFallback(val) ==
    IF val \in DOMAIN koppenClasses THEN koppenClasses[val].name
    ELSE "Unknown"
\* if (val in koppenClasses) ... else climateType = `Code ${val}`
ClimateName(val) ==
    IF val \in DOMAIN koppenClasses THEN koppenClasses[val].name
    ELSE "Code " \o ToString(val)

\* the try block of getClimate: climateCode and climateType when the block
\* is left, and whether it is left by an exception
TryClimate(la, lo, g) ==
    IF ~g.loaded
    THEN [threw |-> FALSE, climateCode |-> NullCode, climateType |-> "Unknown"]
    ELSE LET xPixel == XPixel(lo, g)
             yPixel == YPixel(la, g)
         IN  IF yPixel >= 0 /\ yPixel < g.height
                /\ xPixel >= 0 /\ xPixel < g.width
             THEN LET cell == CellRead(g, yPixel, xPixel)
                  IN  IF cell.threw
                      THEN [threw |-> TRUE, climateCode |-> NullCode,
                            climateType |-> "Unknown"]
                      ELSE [threw |-> FALSE, climateCode |-> <<cell.val>>,
                            climateType |-> ClimateName(cell.val)]
             ELSE [threw |-> FALSE, climateCode |-> NullCode,
                   climateType |-> "Unknown"]

CatchRethrows(r) == r
\* catch (err) { console.error(...) }: the exception is swallowed and the
\* function goes on to its return statement
CatchClimate(r) == [r EXCEPT !.threw = FALSE]

\* getClimate(lat, lon, georaster): the returned object
getClimate(la, lo, g) ==
    LET r == CatchClimate(TryClimate(la, lo, g))
    IN  [climateCode |-> r.climateCode, climateType |-> r.climateType]

\* getClimate(lat, lon, georaster): whether the call throws
getClimateThrows(la, lo, g) == CatchClimate(TryClimate(la, lo, g)).threw

\* rasters a GeoTIFF can parse to: origin (xmin, ymax), cell sizes, width,
\* height and one band of integer codes
Rasters ==
    {[loaded |-> TRUE, xmin |-> -4, ymax |-> 4,
      pixelWidth |-> pw, pixelHeight |-> ph, width |-> w, height |-> h,
      values |-> [r \in 0..(h - 1) |->
                     [c \in 0..(w - 1) |-> (3 * r + c + k) % 8]]] :
        pw \in {2, 3}, ph \in {-2, 3}, w \in 1..MaxWidth, h \in 1..MaxHeight,
        k \in {1, 4}}

\* loadGeoTiff: the fetch and the parse succeeded, georasterObj = georaster
LoadGeoTiff(g) ==
    /\ rasterLoad = "loading"
    /\ rasterLoad' = "loaded"
    /\ georaster' = g
    /\ UNCHANGED <<lat, lon, rasterArg, climate, climateThrew>>
    /\ UNCHANGED <<forecastVars, renderVars, uiVars>>

\* loadGeoTiff: the fetch or the parse failed, georasterObj stays null
LoadGeoTiffFails ==
    /\ rasterLoad = "loading"
    /\ rasterLoad' = "failed"
    /\ UNCHANGED <<lat, lon, rasterArg, georaster, climate, climateThrew>>
    /\ UNCHANGED <<forecastVars, renderVars, uiVars>>

\* a caller evaluates getClimate(la, lo, georasterObj)
GetClimate(la, lo) ==
    /\ lat' = la
    /\ lon' = lo
    /\ rasterArg' = georaster
    /\ climate' = getClimate(la, lo, georaster)
    /\ climateThrew' = getClimateThrows(la, lo, georaster)
    /\ UNCHANGED <<rasterLoad, georaster>>
    /\ UNCHANGED <<forecastVars, renderVars, uiVars>>

NextClimate ==
    \/ \E g \in Rasters : LoadGeoTiff(g)
    \/ LoadGeoTiffFails
    \/ \E la \in -MaxCoord..MaxCoord, lo \in -MaxCoord..MaxCoord :
           GetClimate(la, lo)

SpecClimate == Init /\ [][NextClimate]_vars

\* georaster objects whose band has lost its last row: the header still
\* announces height rows
TruncatedRasters ==
    {[g EXCEPT !.values = [r \in 0..(g.height - 2) |-> g.values[r]]] :
        g \in Rasters}

\* the classifier against any grid state: absent, loaded, or loaded with a
\* band shorter than its header
NextClimateAny ==
    \/ \E g \in Rasters \cup TruncatedRasters : LoadGeoTiff(g)
    \/ LoadGeoTiffFails
    \/ \E la \in -MaxCoord..MaxCoord, lo \in -MaxCoord..MaxCoord :
           GetClimate(la, lo)

SpecClimateAny == Init /\ [][NextClimateAny]_vars

----------------------------------------------------------------------------
(* renderHourly *)

\* offsets from UTC of the browsers the page is opened in
TzOffsets == {0, 7}

\* new Date(h.dt * 1000).getHours(): the hour of the day in local time
GetHours(dt, tz) == ((dt + tz * HourSec) \div HourSec) % 24

\* hours.findIndex((h) => getHours(h) % 3 === 0), counted from 0; -1 when
\* there is none
FindStartIdx(hours, tz) ==
    IF \E i \in 1..Len(hours) : GetHours(hours[i].dt, tz) % 3 = 0
    THEN (CHOOSE i \in 1..Len(hours) :
              /\ GetHours(hours[i].dt, tz) % 3 = 0
              /\ \A j \in 1..(i - 1) : GetHours(hours[j].dt, tz) % 3 # 0) - 1
    ELSE -1

RECURSIVE PickLoop(_, _, _)
\* for (let k = 0; k < 8; k++) { idx = first + k * 3; if (idx < hours.length)
\* picks.push(hours[idx]) }, from iteration k on
PickLoop(hours, first, k) ==
    IF k >= 8 THEN <<>>
    ELSE (IF first + k * 3 < Len(hours) THEN <<hours[first + k * 3 + 1]>>
          ELSE <<>>) \o PickLoop(hours, first, k + 1)

\* the entries renderHourly turns into hour cards
PicksOf(hours, tz) ==
    LET startIdx == FindStartIdx(hours, tz)
        first == IF startIdx >= 0 THEN startIdx ELSE 0
        picks == PickLoop(hours, first, 0)
    IN  IF Len(picks) = 0 THEN <<hours[1]>> ELSE picks

\* renderHourly(lat, lon) up to its await: "Loading..." is shown and
\* getHourly24 runs up to its first await
RenderHourly(tz) ==
    /\ pc = "idle"
    /\ hourlyView = NoView
    /\ tzHours' = tz
    /\ hourlyView' = [kind |-> "loading", picks |-> <<>>]
    /\ fn' = "hourly"
    /\ IssueFetch(1, inflight)
    /\ UNCHANGED <<count, tierOutcome, body, result, error>>
    /\ UNCHANGED <<climateVars, uiVars>>

\* renderHourly after await getHourly24(lat, lon) has settled
RenderHourlyResumes ==
    /\ fn = "hourly"
    /\ pc \in {"returned", "thrown"}
    /\ hourlyView.kind = "loading"
    /\ hourlyView' =
           IF pc = "thrown" THEN [kind |-> "error", picks |-> <<>>]
           ELSE IF Len(result) = 0 THEN [kind |-> "empty", picks |-> <<>>]
           ELSE [kind |-> "cards", picks |-> PicksOf(result, tzHours)]
    /\ UNCHANGED tzHours
    /\ UNCHANGED <<forecastVars, climateVars, uiVars>>

NextRender ==
    \/ \E tz \in TzOffsets : RenderHourly(tz)
    \/ FetchRejects
    \/ \E ok \in BOOLEAN : FetchResolves(ok)
    \/ JsonRejects
    \/ (pc = "awaitJson" /\ \E b \in Bodies(fn, tier) : JsonResolves(b))
    \/ RenderHourlyResumes

SpecRender == Init /\ [][NextRender]_vars

----------------------------------------------------------------------------
(* Location selections: the map click handler, pickLocation, updateInfo *)

\* a handler moves on to its next await, or ends
Goto(s, at) == selections' = [selections EXCEPT ![s].pc = at]

\* the elements named in fs now show selection s
Written(p, fs, s) == [f \in PanelFields |-> IF f \in fs THEN s ELSE p[f]]

HeaderWritesUnlessStale(s, p) ==
    IF s = Len(selections)
    THEN Written(p, {"location_name", "elevation", "climate_type"}, s)
    ELSE p
\* updateInfo before its first await: location_name, elevation, climate_type
HeaderWrites(s, p) ==
    Written(p, {"location_name", "elevation", "climate_type"}, s)

\* updateInfo(lat, lon, ...) up to await getCurrentWeather(lat, lon)
UpdateInfoBegins(s) ==
    /\ lastLatLon' = s
    /\ panel' = HeaderWrites(s, panel)
    /\ Goto(s, "awaitWeather")

\* map.on("click", ...) up to await getElevation(lat, lon)
MapClick ==
    /\ Len(selections) < MaxSel
    /\ selections' = Append(selections, [via |-> "click",
                                         pc |-> "awaitElevation"])
    /\ UNCHANGED <<marker, lastLatLon, panel>>
    /\ UNCHANGED <<forecastVars, climateVars, renderVars>>

\* pickLocation(place) up to await getElevation(lat, lon): the marker is
\* placed at once
PickLocation ==
    /\ Len(selections) < MaxSel
    /\ selections' = Append(selections, [via |-> "pick",
                                         pc |-> "awaitElevation"])
    /\ marker' = Len(selections) + 1
    /\ UNCHANGED <<lastLatLon, panel>>
    /\ UNCHANGED <<forecastVars, climateVars, renderVars>>

\* getElevation settles (it never throws).  The click handler goes on to
\* await getNameByCoordinates; pickLocation calls updateInfo
ElevationSettles(s) ==
    /\ selections[s].pc = "awaitElevation"
    /\ IF selections[s].via = "click"
       THEN Goto(s, "awaitName") /\ UNCHANGED <<lastLatLon, panel>>
       ELSE UpdateInfoBegins(s)
    /\ UNCHANGED marker
    /\ UNCHANGED <<forecastVars, climateVars, renderVars>>

\* getNameByCoordinates settles (it never throws): addMarker, then updateInfo
NameSettles(s) ==
    /\ selections[s].pc = "awaitName"
    /\ marker' = s
    /\ UpdateInfoBegins(s)
    /\ UNCHANGED <<forecastVars, climateVars, renderVars>>

\* getCurrentWeather settles.  Resolved: temperature and weather_desc are
\* written and getForecast10Days(lat, lon, 1) is called.  Thrown: the outer
\* catch logs the error and updateInfo ends
WeatherSettles(s, ok) ==
    /\ selections[s].pc = "awaitWeather"
    /\ IF ok
       THEN /\ panel' = Written(panel, {"temperature", "weather_desc"}, s)
            /\ Goto(s, "awaitDaily")
       ELSE /\ Goto(s, "failed")
            /\ UNCHANGED panel
    /\ UNCHANGED <<marker, lastLatLon>>
    /\ UNCHANGED <<forecastVars, climateVars, renderVars>>

\* getForecast10Days(lat, lon, 1) settles: temp_range is written from the
\* daily entry or, when there is none or the call threw, from the current
\* weather; humidity_value and wind_value follow, then the One Call 3.0 fetch
DailySettles(s) ==
    /\ selections[s].pc = "awaitDaily"
    /\ panel' = Written(panel, {"temp_range", "humidity_value",
                                "wind_value"}, s)
    /\ Goto(s, "awaitUvi30")
    /\ UNCHANGED <<marker, lastLatLon>>
    /\ UNCHANGED <<forecastVars, climateVars, renderVars>>

\* the fetch of One Call 3.0 settles: "ok", "notOk" (HTTP error status) or
\* "rejected"
Uvi30Settles(s, how) ==
    /\ selections[s].pc = "awaitUvi30"
    /\ IF how = "ok"
       THEN Goto(s, "awaitUviJson30") /\ UNCHANGED panel
       ELSE IF how = "notOk"
       THEN Goto(s, "awaitUvi25") /\ UNCHANGED panel
       ELSE /\ panel' = Written(panel, {"uv_index"}, s)
            /\ Goto(s, "done")
    /\ UNCHANGED <<marker, lastLatLon>>
    /\ UNCHANGED <<forecastVars, climateVars, renderVars>>

\* the fetch of One Call 2.5 settles
Uvi25Settles(s, how) ==
    /\ selections[s].pc = "awaitUvi25"
    /\ IF how = "ok"
       THEN Goto(s, "awaitUviJson25") /\ UNCHANGED panel
       ELSE /\ panel' = Written(panel, {"uv_index"}, s)
            /\ Goto(s, "done")
    /\ UNCHANGED <<marker, lastLatLon>>
    /\ UNCHANGED <<forecastVars, climateVars, renderVars>>

\* r30.json() or r25.json() settles: uv_index shows the value, or a dash when
\* there is none or the body could not be read
UviJsonSettles(s) ==
    /\ selections[s].pc \in {"awaitUviJson30", "awaitUviJson25"}
    /\ panel' = Written(panel, {"uv_index"}, s)
    /\ Goto(s, "done")
    /\ UNCHANGED <<marker, lastLatLon>>
    /\ UNCHANGED <<forecastVars, climateVars, renderVars>>

FetchOutcomes == {"ok", "notOk", "rejected"}

NextUI ==
    \/ MapClick
    \/ PickLocation
    \/ \E s \in 1..Len(selections) : ElevationSettles(s)
    \/ \E s \in 1..Len(selections) : NameSettles(s)
    \/ \E s \in 1..Len(selections), ok \in BOOLEAN : WeatherSettles(s, ok)
    \/ \E s \in 1..Len(selections) : DailySettles(s)
    \/ \E s \in 1..Len(selections), how \in FetchOutcomes :
           Uvi30Settles(s, how)
    \/ \E s \in 1..Len(selections), how \in FetchOutcomes :
           Uvi25Settles(s, how)
    \/ \E s \in 1..Len(selections) : UviJsonSettles(s)

SpecUI == Init /\ [][NextUI]_vars

----------------------------------------------------------------------------
(* Vocabulary of the properties *)

Failed == {"network", "status", "parse"}
Nothing == Failed \cup {"empty"}
Finished == pc \in {"returned", "thrown"}
AllTiersYieldNothing == \A t \in Tiers : tierOutcome[t] \in Nothing

\* the count the contract promises: count clamped to [1, 10]
EffectiveCount(c) == IF c < 1 THEN 1 ELSE IF c > 10 THEN 10 ELSE c

Prefix(s, n) == [i \in 1..n |-> s[i]]
Ascending(s) == \A i \in 1..(Len(s) - 1) : s[i].dt <= s[i + 1].dt
UtcDay(dt) == dt \div 86400

----------------------------------------------------------------------------
(* C1 *)

\* C1: within one getForecast10Days call the tiers are fetched in the order
\* 1, 2, 3, each at most once; tier t+1 is fetched only after tiers 1..t
\* completed without a non-empty daily list; at most one fetch is in flight;
\* no tier is fetched after one has been accepted.
C1_StrictTierOrder ==
    fn = "daily" =>
        /\ Len(fetchLog) <= 3
        /\ \A i \in 1..Len(fetchLog) : fetchLog[i] = i
        /\ Cardinality(inflight) <= 1
        /\ \A i \in 1..Len(fetchLog) :
               \A j \in 1..(i - 1) : tierOutcome[j] \in Nothing
        /\ \A t \in Tiers :
               tierOutcome[t] = "data" =>
                   /\ Len(fetchLog) = t
                   /\ inflight = {}
                   /\ pc = "returned"

\* all three tiers were fetched and the third was accepted
C1_Witness ==
    fn = "daily" /\ pc = "returned" /\ fetchLog = <<1, 2, 3>>
    /\ tierOutcome[3] = "data"

(* C2 *)

\* C2 as stated: whenever all three tiers of getForecast10Days failed or were
\* empty, the call threw "No forecast data available" and returned nothing.
C2_AlwaysNoForecastData ==
    (fn = "daily" /\ Finished /\ AllTiersYieldNothing) =>
        (pc = "thrown" /\ error = "No forecast data available"
         /\ result = <<>>)

\* C2 amended: whenever all three tiers failed or were empty, the call threw
\* and returned nothing; the failure is "No forecast data available" exactly
\* when the third tier answered with a list that yields no day, and the third
\* tier's own error when its fetch, status or JSON parse failed.
C2_ExhaustionThrows ==
    (fn = "daily" /\ Finished /\ AllTiersYieldNothing) =>
        /\ pc = "thrown"
        /\ result = <<>>
        /\ (error = "No forecast data available") <=> (tierOutcome[3] = "empty")
        /\ tierOutcome[3] = "status" => error = "forecast 3h not available"
        /\ tierOutcome[3] = "network" => error = "Failed to fetch"
        /\ tierOutcome[3] = "parse" => error = "Unexpected token in JSON"

\* every tier yielded nothing, the third by a non-success status
C2_Witness ==
    fn = "daily" /\ pc = "thrown" /\ tierOutcome[1] = "empty"
    /\ tierOutcome[2] = "network" /\ tierOutcome[3] = "status"

(* C3 *)

\* C3: in both resolvers a network error, JSON parse error or non-success
\* status at tier 1 or 2 is not thrown to the caller: the call goes on to
\* fetch the next tier, and only tier 3 can end the call with a throw.
C3_EarlyTierErrorsSwallowed ==
    /\ pc = "thrown" => tier = 3
    /\ \A t \in 1..2 :
           tierOutcome[t] \in Failed =>
               /\ Len(fetchLog) >= t + 1
               /\ fetchLog[t + 1] = t + 1
               /\ (tier = t + 1 /\ pc = "awaitFetch") => (t + 1) \in inflight

\* tier 1 failed with a network error, tier 2 with a parse error, and the
\* hourly call still returned data from tier 3
C3_Witness ==
    fn = "hourly" /\ pc = "returned" /\ tierOutcome[1] = "network"
    /\ tierOutcome[2] = "parse" /\ result # <<>>

(* C4 *)

\* C4 as stated: a non-empty primary daily array of length >= count makes the
\* call return exactly its first count entries and fetch no other tier.
C4_FirstCountEntries ==
    (fn = "daily" /\ pc = "returned" /\ tierOutcome[1] = "data"
     /\ Len(body.items) >= count) =>
        (result = Prefix(body.items, count) /\ fetchLog = <<1>>)

\* C4 amended: a non-empty primary daily array of length >= count makes the
\* call return exactly its first min(10, max(1, count)) entries, unmodified
\* and in order, and fetch no other tier.
C4_FirstClampedEntries ==
    (fn = "daily" /\ pc = "returned" /\ tierOutcome[1] = "data"
     /\ Len(body.items) >= count) =>
        /\ Len(body.items) >= EffectiveCount(count)
        /\ result = Prefix(body.items, EffectiveCount(count))
        /\ fetchLog = <<1>>

\* count 11 against 11 primary entries in descending order: 10 are returned
C4_Witness ==
    fn = "daily" /\ pc = "returned" /\ tierOutcome[1] = "data"
    /\ count = 11 /\ Len(body.items) = 11 /\ Len(result) = 10
    /\ body.items[1].dt > body.items[2].dt

(* C5 *)

\* C5: a list returned by getForecast10Days is non-empty and has at most
\* min(10, max(1, count)) entries, whichever tier supplied it.
C5_NonEmptyAtMostCount ==
    (fn = "daily" /\ pc = "returned") =>
        (Len(result) >= 1 /\ Len(result) <= EffectiveCount(count))

\* tier 3 supplied the result and its samples span more days than count
C5_Witness ==
    fn = "daily" /\ pc = "returned" /\ tier = 3 /\ count = 1
    /\ Len(result) = 1
    /\ \E i, j \in 1..Len(body.items) :
           UtcDay(body.items[i].dt) # UtcDay(body.items[j].dt)

(* C6 *)

\* C6 as stated: every list returned by getForecast10Days is in ascending dt
\* order.
C6_AlwaysAscending ==
    (fn = "daily" /\ pc = "returned") => Ascending(result)

\* C6 amended: a list synthesized by tier 3 is in ascending dt order for
\* every order of the samples; a list supplied by tier 1 or 2 is in the order
\* in which the remote source lists its entries.
C6_AscendingFromSamples ==
    (fn = "daily" /\ pc = "returned") =>
        /\ tier = 3 => Ascending(result)
        /\ tier < 3 => result = Prefix(body.items, Len(result))

\* tier 3 supplied two days from samples listed latest first
C6_Witness ==
    fn = "daily" /\ pc = "returned" /\ tier = 3 /\ Len(result) = 2
    /\ body.items[1].dt > body.items[2].dt
    /\ UtcDay(body.items[1].dt) # UtcDay(body.items[2].dt)

(* C8 *)

\* C8: a list returned by getHourly24 has at most 24 entries.
C8_AtMost24 ==
    (fn = "hourly" /\ pc = "returned") => Len(result) <= 24

\* a tier answered with 25 hourly entries and 24 were returned
C8_Witness ==
    fn = "hourly" /\ pc = "returned" /\ Len(body.items) = 25
    /\ Len(result) = 24

(* C9 *)

\* C9 as stated: when all three tiers of getHourly24 failed or were empty the
\* call threw, and getHourly24 never returns an empty list.
C9_ExhaustionThrows ==
    /\ (fn = "hourly" /\ Finished /\ AllTiersYieldNothing) => pc = "thrown"
    /\ (fn = "hourly" /\ pc = "returned") => result # <<>>

\* C9 amended: when all three tiers of getHourly24 failed or were empty, the
\* call threw the third tier's error if the third tier's fetch, status or
\* JSON parse failed, and returned the empty list if the third tier answered
\* with an empty or missing list.
C9_ThrowsOrReturnsEmpty ==
    (fn = "hourly" /\ Finished /\ AllTiersYieldNothing) =>
        /\ tierOutcome[3] \in Failed => (pc = "thrown" /\ result = <<>>)
        /\ tierOutcome[3] = "status" => error = "forecast 3h not available"
        /\ tierOutcome[3] = "empty" => (pc = "returned" /\ result = <<>>)

\* the hourly call returned the empty list after three tiers without data
C9_Witness ==
    fn = "hourly" /\ pc = "returned" /\ result = <<>>
    /\ tierOutcome[1] = "status" /\ tierOutcome[2] = "empty"
    /\ tierOutcome[3] = "empty"

----------------------------------------------------------------------------
(* The daily resolver when tiers 1 and 2 are unreachable and tier 3 answers *)
(* with arbitrary short sample lists                                        *)

NextAgg ==
    \/ \E c \in 1..MaxAggCount : CallForecast(c)
    \/ (tier < 3 /\ FetchRejects)
    \/ (tier = 3 /\ FetchResolves(TRUE))
    \/ (pc = "awaitJson" /\ \E b \in AggListBodies : JsonResolves(b))

SpecAgg == Init /\ [][NextAgg]_vars

(* C7 *)

\* indices of the samples of UTC day d
SamplesOfDay(d) == {k \in 1..Len(body.items) : UtcDay(body.items[k].dt) = d}
SampleDays == {UtcDay(body.items[k].dt) : k \in 1..Len(body.items)}
TempsOfDay(d) ==
    {body.items[k].main[1].temp :
        k \in {j \in SamplesOfDay(d) : body.items[j].main # <<>>}}
\* nearest whole degree (in tenths), halves upwards
NearestDegree(x) ==
    10 * (CHOOSE n \in -100..100 : 10 * n - 5 <= x /\ x < 10 * n + 5)
\* v is the most frequent value of field f among the samples of day d, the
\* first encountered among the most frequent ones
IsModeOfDay(v, d, f) ==
    LET with == {k \in SamplesOfDay(d) : body.items[k].weather # <<>>}
        occ(w) == {k \in with : body.items[k].weather[1][f] = w}
        first(w) == CHOOSE k \in occ(w) : \A j \in occ(w) : k <= j
        vals == {body.items[k].weather[1][f] : k \in with}
    IN  with # {} =>
            /\ v \in vals
            /\ \A w \in vals \ {v} :
                   \/ Cardinality(occ(w)) < Cardinality(occ(v))
                   \/ /\ Cardinality(occ(w)) = Cardinality(occ(v))
                      /\ first(v) < first(w)

\* C7: with tiers 1 and 2 failed and tier 3 answering with samples, the call
\* returns one entry per UTC day of the samples (the earliest count days), and
\* every entry has min <= max, min and max the rounded minimum and maximum of
\* its day's sample temperatures, and icon and description the most frequent
\* value among its day's samples (the first encountered on ties).
C7_DayAggregates ==
    (fn = "daily" /\ pc = "returned" /\ tier = 3
     /\ tierOutcome[1] \in Failed /\ tierOutcome[2] \in Failed) =>
        /\ Len(result) =
               Min2(Cardinality(SampleDays), EffectiveCount(count))
        /\ \A i \in 1..Len(result) :
               LET d == UtcDay(result[i].dt)
               IN  /\ d \in SampleDays
                   /\ Cardinality({e \in SampleDays : e < d}) = i - 1
                   /\ result[i].temp.min <= result[i].temp.max
                   /\ TempsOfDay(d) # {} =>
                          /\ result[i].temp.min = NearestDegree(
                                 CHOOSE t \in TempsOfDay(d) :
                                     \A u \in TempsOfDay(d) : t <= u)
                          /\ result[i].temp.max = NearestDegree(
                                 CHOOSE t \in TempsOfDay(d) :
                                     \A u \in TempsOfDay(d) : t >= u)
                   /\ IsModeOfDay(result[i].weather[1].icon, d, "icon")
                   /\ IsModeOfDay(result[i].weather[1].description, d,
                                  "description")

----------------------------------------------------------------------------
(* C10 *)

\* floor(a / b) for b > 0, from its defining inequalities
FloorOfQuotient(a, b) ==
    CHOOSE q \in -100..100 : q * b <= a /\ a < (q + 1) * b

\* C10: with a loaded grid, column = floor((lon - xmin) / pixelWidth) and
\* row = floor((ymax - lat) / |pixelHeight|); when 0 <= row < height and
\* 0 <= column < width the returned code is the grid value at [row][column],
\* and otherwise the result is exactly {code: null, name: "Unknown"}.
C10_CellLookup ==
    (rasterArg.loaded /\ climate # NotCalled) =>
        LET column == FloorOfQuotient(lon - rasterArg.xmin,
                                      rasterArg.pixelWidth)
            row == FloorOfQuotient(rasterArg.ymax - lat,
                                   Abs(rasterArg.pixelHeight))
        IN  IF 0 <= row /\ row < rasterArg.height
               /\ 0 <= column /\ column < rasterArg.width
            THEN climate.climateCode = <<rasterArg.values[row][column]>>
            ELSE climate = [climateCode |-> NullCode,
                            climateType |-> "Unknown"]

\* a coordinate inside a grid with negative pixelHeight was classified from
\* a cell that is not the grid's first
C10_Witness ==
    /\ rasterArg.loaded /\ rasterArg.pixelHeight < 0
    /\ rasterArg.width = 3 /\ rasterArg.height = 2
    /\ FloorOfQuotient(lon - rasterArg.xmin, rasterArg.pixelWidth) = 2
    /\ FloorOfQuotient(rasterArg.ymax - lat, Abs(rasterArg.pixelHeight)) = 1
    /\ climate.climateCode # NullCode

----------------------------------------------------------------------------
(* C11 *)

\* C11: getClimate never throws, whatever the coordinate and the grid state;
\* with the grid absent (the raster still loading, or its load failed) it
\* returns {code: null, name: "Unknown"}.
C11_NeverThrows ==
    /\ climateThrew = FALSE
    /\ (climate # NotCalled /\ ~rasterArg.loaded) =>
           climate = [climateCode |-> NullCode, climateType |-> "Unknown"]

\* a coordinate was classified after the raster load had failed
C11_Witness ==
    /\ rasterLoad = "failed" /\ ~rasterArg.loaded
    /\ climate = [climateCode |-> NullCode, climateType |-> "Unknown"]
    /\ lat # 0 /\ lon # 0
    /\ climateThrew = FALSE

----------------------------------------------------------------------------
(* C12 *)

\* the code the fixed table labels "No data": a cell without a raster value
NoDataCode == 0

\* the fixed classification table, as the contract lists it
TableLabel(v) ==
    CASE v = 0 -> "No data"
      [] v = 1 -> "Tropical (A)"
      [] v = 2 -> "Arid (B)"
      [] v = 3 -> "Temperate (C)"
      [] v = 4 -> "Cold (D)"
      [] v = 5 -> "Polar (E)"

\* the last call's coordinate lies in a cell of the grid it was given
CellInBounds ==
    /\ rasterArg.loaded
    /\ LET column == FloorOfQuotient(lon - rasterArg.xmin,
                                     rasterArg.pixelWidth)
           row == FloorOfQuotient(rasterArg.ymax - lat,
                                  Abs(rasterArg.pixelHeight))
       IN  /\ 0 <= row /\ row < rasterArg.height
           /\ 0 <= column /\ column < rasterArg.width

\* the value of that cell
CellValue ==
    rasterArg.values[FloorOfQuotient(rasterArg.ymax - lat,
                                     Abs(rasterArg.pixelHeight))]
                    [FloorOfQuotient(lon - rasterArg.xmin,
                                     rasterArg.pixelWidth)]

\* the name of an in-bounds cell is the table's label or "Code N"
CellNamedByTable ==
    CellInBounds =>
        climate.climateType =
            IF CellValue \in 0..5 THEN TableLabel(CellValue)
            ELSE "Code " \o ToString(CellValue)

\* C12 as stated: the name of an in-bounds cell is the table's label or
\* "Code N", and the name is "Unknown" exactly when the coordinate is out of
\* bounds, the grid is absent, or the cell holds no raster value.
C12_UnknownIffNoValue ==
    climate # NotCalled =>
        /\ (CellInBounds /\ CellValue # NoDataCode) =>
               climate.climateType =
                   IF CellValue \in 0..5 THEN TableLabel(CellValue)
                   ELSE "Code " \o ToString(CellValue)
        /\ (climate.climateType = "Unknown") <=>
               (~CellInBounds \/ CellValue = NoDataCode)

\* C12 amended: the name of an in-bounds cell is the table's label or
\* "Code N", a cell holding the no-data code 0 being named "No data"; the
\* name is "Unknown" exactly when the coordinate is out of bounds or the grid
\* is absent.
C12_UnknownIffOutside ==
    climate # NotCalled =>
        /\ CellNamedByTable
        /\ (climate.climateType = "Unknown") <=> ~CellInBounds

\* an in-bounds cell holding a code that the table does not list
C12_Witness ==
    /\ CellInBounds /\ CellValue = 7
    /\ climate = [climateCode |-> <<7>>, climateType |-> "Code 7"]

----------------------------------------------------------------------------
(* C15 *)

\* C15: for every non-empty list returned by getHourly24, renderHourly shows
\* 8 entries, each 3 hours after the one shown before it.
C15_EightCardsThreeHoursApart ==
    (hourlyView.kind \in {"cards", "empty", "error"} /\ pc = "returned"
     /\ Len(result) > 0) =>
        /\ hourlyView.kind = "cards"
        /\ Len(hourlyView.picks) = 8
        /\ \A i \in 1..(Len(hourlyView.picks) - 1) :
               hourlyView.picks[i + 1].dt = hourlyView.picks[i].dt + 3 * 3600

----------------------------------------------------------------------------
(* C13, C14 *)

\* the handler of selection s ran updateInfo to its end without an error
Completed(s) == selections[s].pc = "done"

\* every element of the info panel shows selection s
PanelShows(s) == \A f \in PanelFields : panel[f] = s

\* C13: overlapping selections have no completion-order guarantee: whenever
\* the lookups of a selection settle, its name, elevation and climate type
\* and its coordinate are rendered, and for a map click its marker is placed,
\* also when a later selection has been made or has already been rendered.
C13_NoCompletionOrder ==
    [][\A s \in 1..Len(selections) :
          (selections[s].pc # "awaitWeather"
           /\ selections'[s].pc = "awaitWeather") =>
              /\ lastLatLon' = s
              /\ \A f \in {"location_name", "elevation", "climate_type"} :
                     panel'[f] = s
              /\ selections[s].via = "click" => marker' = s]_vars

\* Two map clicks, the later one rendered to its end, and yet the marker,
\* the whole panel and the last-selected coordinate show the earlier one.
C13_Witness ==
    /\ Len(selections) = 2
    /\ selections[1].via = "click" /\ selections[2].via = "click"
    /\ Completed(1) /\ Completed(2)
    /\ marker = 1
    /\ lastLatLon = 1
    /\ PanelShows(1)

\* C14: once both of two overlapping updateInfo calls have completed, all
\* elements of the info panel and window._lastLatLon belong to one and the
\* same selection.
C14_PanelOfOneSelection ==
    (Len(selections) = 2 /\ Completed(1) /\ Completed(2)) =>
        \E s \in 1..2 : lastLatLon = s /\ PanelShows(s)

====
